---- MODULE Spec2Model ----
(***************************************************************************)
(* Model of the AI video generator's pipeline core:                        *)
(*   - the approval queue      (src/services/approval_service.py)          *)
(*   - the checkpointed pipeline (src/core/pipeline.py)                    *)
(*   - the multi-provider screenplay generation and merge                  *)
(*     (src/api/enhanced_main.py,                                          *)
(*      src/agents/screenplay/screenplay_merger_agent.py)                  *)
(* Time is counted in whole hours.  None is the string "None"; an optional *)
(* date is the empty sequence (None) or a one-element sequence <<t>>.      *)
(***************************************************************************)
EXTENDS Integers, Sequences, FiniteSets, TLC

VARIABLES
    db,          \* approval_requests table: approval id -> row
    queue,       \* Redis sorted set "approval_queue": entries with their score
    pendingSet,  \* Redis set "pending_approvals"
    userAssign,  \* Redis sets "user_assignments:{user_id}": user -> set of ids
    now,         \* datetime.utcnow(), in hours
    lastOp,      \* the operation that produced this state and its outcome
    listed,      \* the list returned by the last get_pending_approvals call
    sweeps,      \* the running cleanup_expired_approvals calls: their position,
                 \* the rows still to update and the rows updated, not committed
    resp,        \* the running submit_approval_response call
    responded,   \* approval id -> the row as the last response wrote it
    project,     \* the project document: status, current_stage, error_message
    screenplay,  \* the screenplay document of the project
    shots,       \* the shot division document of the project
    lastGen,     \* the provider outcomes and the result of the last generation
    file,        \* pipeline_state.json
    mem,         \* PipelineState.state of the running run_pipeline
    ckpt,        \* the local variable checkpoint of run_pipeline
    ppc,         \* the position of run_pipeline
    crashes,     \* interruptions so far
    execs,       \* stage -> number of times its generation was executed
    outcome,     \* how the last run_pipeline ended
    saved,       \* the last state that save_state wrote completely
    reas,        \* the running reassign_approval call
    calls,       \* provider -> its call in the running fan-out
    fanpc,       \* the position of ScreenplayFormattingAgent.process
    hook,        \* the project entry of PROJECTS in api/main.py
    projects_db, \* the project entry of projects_db in app.py
    tasks,       \* the process_project tasks: position, stage index, wake-up time
    clock,       \* the event loop's time, in seconds
    scored,      \* the last text given to _calculate_quality_score
    merged,      \* the last call of ScreenplayMergerAgent.process
    cons,        \* the calls of merge_screenplays so far, with their results
    sent,        \* the notifications the last operation published
    crt,         \* the running create_approval_request call
    query        \* the arguments of the last get_pending_approvals call

approvalVars == <<db, queue, pendingSet, userAssign, now, lastOp, listed>>

raceVars == <<sweeps, resp, responded>>

genVars == <<project, screenplay, shots, lastGen>>

pipeVars == <<file, mem, ckpt, ppc, crashes, execs, outcome, saved>>

reassignVars == <<reas>>

fanVars == <<calls, fanpc>>

hookVars == <<hook>>

driveVars == <<projects_db, tasks, clock>>

mergeVars == <<scored, merged, cons>>

svcVars == <<sent, crt, query>>

\* what the operations of one component leave alone
exceptApprovalVars ==
    <<raceVars, genVars, pipeVars, reassignVars, fanVars, hookVars, driveVars, mergeVars, svcVars>>

exceptRaceVars ==
    <<genVars, pipeVars, reassignVars, fanVars, hookVars, driveVars, mergeVars, svcVars>>

exceptGenVars ==
    <<approvalVars, raceVars, pipeVars, reassignVars, fanVars, hookVars, driveVars, mergeVars, svcVars>>

exceptPipeVars ==
    <<approvalVars, raceVars, genVars, reassignVars, fanVars, hookVars, driveVars, mergeVars, svcVars>>

exceptReassignVars ==
    <<raceVars, genVars, pipeVars, fanVars, hookVars, driveVars, mergeVars, svcVars>>

exceptHookVars ==
    <<approvalVars, raceVars, genVars, pipeVars, reassignVars, fanVars,
      driveVars, mergeVars, svcVars>>

exceptFanVars ==
    <<approvalVars, raceVars, genVars, pipeVars, reassignVars, hookVars,
      driveVars, mergeVars, svcVars>>

exceptDriveVars ==
    <<approvalVars, raceVars, genVars, pipeVars, reassignVars, fanVars,
      hookVars, mergeVars, svcVars>>

exceptMergeVars ==
    <<approvalVars, raceVars, genVars, pipeVars, reassignVars, fanVars,
      hookVars, driveVars, svcVars>>

\* what an approval operation that publishes, or runs in steps, leaves alone
exceptSvcVars ==
    <<raceVars, genVars, pipeVars, reassignVars, fanVars, hookVars, driveVars,
      mergeVars>>

vars == <<db, queue, pendingSet, userAssign, now, lastOp, listed,
          sweeps, resp, responded, project, screenplay, shots, lastGen,
          file, mem, ckpt, ppc, crashes, execs, outcome, saved, reas,
          calls, fanpc, hook, projects_db, tasks, clock,
          scored, merged, cons, sent, crt, query>>

----------------------------------------------------------------------------
(* Bounds of the model *)

MaxReq == 2          \* approval requests created in the service model
TickStep == 25       \* hours by which the clock advances in one step

(* Program constants *)

PriorityWeight == 1000
AgeRate == 10
AgeCap == 500
OverdueBonus == 1000
DueSoonBonus == 500
DueLaterBonus == 200
DueSoonHours == 24
DueLaterHours == 72
DefaultLimit == 20

----------------------------------------------------------------------------
(* Value sets *)

Ids == 1..(MaxReq + 1)
Users == {"u1", "u2"}
Projects == {"p1"}
WorkflowStage == {"screenplay_generation", "character_design"}
ApprovalType == {"screenplay"}
ApprovalPriority == 1..5
ApprovalStatus == {"pending", "approved", "rejected", "revision_requested"}
NoDate == <<>>

Min(a, b) == IF a < b THEN a ELSE b

\* Python truthiness of an optional string
Truthy(s) == s # "None" /\ s # ""

\* The responses an approver submits: user_id, approved, selected_option,
\* feedback, revision_notes
Responses ==
    { [user_id |-> "u1", approved |-> TRUE, selected_option |-> "optA",
       feedback |-> "None", revision_notes |-> "None"],
      [user_id |-> "u2", approved |-> FALSE, selected_option |-> "None",
       feedback |-> "fb", revision_notes |-> "None"],
      [user_id |-> "u2", approved |-> FALSE, selected_option |-> "None",
       feedback |-> "fb", revision_notes |-> "notes"] }

NoOp == [op |-> "init", ok |-> TRUE]

----------------------------------------------------------------------------
(* Approval queue: pure helpers *)

\* _calculate_priority_score without the cap of line 513 on the age bonus
CalculatePriorityScoreUncapped(priority, created_at, due_date, nowv) ==
    LET base_score == priority * PriorityWeight
        age_hours == nowv - created_at
        age_score == age_hours * AgeRate
        hours_until_due == IF due_date = NoDate THEN 0 ELSE due_date[1] - nowv
        due_score ==
            IF due_date = NoDate THEN 0
            ELSE IF hours_until_due < 0 THEN OverdueBonus
            ELSE IF hours_until_due < DueSoonHours THEN DueSoonBonus
            ELSE IF hours_until_due < DueLaterHours THEN DueLaterBonus
            ELSE 0
    IN base_score + age_score + due_score

\* _calculate_priority_score, with utcnow() passed as nowv
CalculatePriorityScore(priority, created_at, due_date, nowv) ==
    LET base_score == priority * PriorityWeight
        age_hours == nowv - created_at
        age_score == Min(age_hours * AgeRate, AgeCap)
        hours_until_due == IF due_date = NoDate THEN 0 ELSE due_date[1] - nowv
        due_score ==
            IF due_date = NoDate THEN 0
            ELSE IF hours_until_due < 0 THEN OverdueBonus
            ELSE IF hours_until_due < DueSoonHours THEN DueSoonBonus
            ELSE IF hours_until_due < DueLaterHours THEN DueLaterBonus
            ELSE 0
    IN base_score + age_score + due_score

\* a sorted set read lowest first, as zrange would
RanksBeforeAscending(e, f) ==
    \/ e.score < f.score
    \/ e.score = f.score /\ e.approval_id <= f.approval_id

\* Redis sorted-set order, highest first: by score, ties by member.  The member
\* is the JSON text of the queue item, which starts with the approval id.
RanksBefore(e, f) ==
    \/ e.score > f.score
    \/ e.score = f.score /\ e.approval_id >= f.approval_id

RECURSIVE ZRevRangeAll(_)
ZRevRangeAll(q) ==
    IF q = {} THEN <<>>
    ELSE LET top == CHOOSE e \in q : \A f \in q : RanksBefore(e, f)
         IN <<top>> \o ZRevRangeAll(q \ {top})

\* zrevrange(key, 0, limit - 1)
ZRevRange(q, limit) ==
    LET all == ZRevRangeAll(q)
    IN SubSeq(all, 1, Min(limit, Len(all)))

\* the row a successful create_approval_request inserts
NewRow(pid, stage, atype, priority, assigned_to, due_date, nowv) ==
    [project_id |-> pid, stage |-> stage, approval_type |-> atype,
     priority |-> priority, assigned_to |-> assigned_to, due_date |-> due_date,
     status |-> "pending", approved_by |-> "None",
     selected_option |-> "None", feedback |-> "None",
     revision_notes |-> "None", requested_at |-> nowv]

\* the queue_item of create_approval_request together with its zadd score
NewQueueEntry(id, pid, stage, atype, priority, assigned_to, due_date, nowv) ==
    [approval_id |-> id, project_id |-> pid, stage |-> stage, type |-> atype,
     priority |-> priority, created_at |-> nowv, assigned_to |-> assigned_to,
     due_date |-> due_date,
     score |-> CalculatePriorityScore(priority, nowv, due_date, nowv)]

\* a _remove_from_queue that leaves the sorted set as it is
QueueKept(id, q) == q

\* _remove_from_queue: the three Redis structures after the call, reading
\* assigned_to from the table dbv
QueueWithout(id, q) == {e \in q : e.approval_id # id}

AssignWithout(id, ua, dbv) ==
    IF id \in DOMAIN dbv /\ Truthy(dbv[id].assigned_to)
    THEN [ua EXCEPT ![dbv[id].assigned_to] = @ \ {id}]
    ELSE ua

\* get_pending_approvals: the ids of the returned approvals, in order
GetPendingApprovals(user_id, project_id, approval_type, limit) ==
    LET items == ZRevRange(queue, limit)
        Keep(e) ==
            /\ ~(Truthy(user_id) /\ e.assigned_to # user_id)
            /\ ~(Truthy(project_id) /\ e.project_id # project_id)
            /\ ~(Truthy(approval_type) /\ e.type # approval_type)
            /\ e.approval_id \in DOMAIN db
            /\ db[e.approval_id].status = "pending"
        kept == SelectSeq(items, Keep)
    IN [i \in 1..Len(kept) |-> kept[i].approval_id]

----------------------------------------------------------------------------
(* Approval queue: operations *)

\* create_approval_request
CreateApprovalRequest(id, pid, stage, atype, priority, assigned_to, due_date) ==
        /\ id \notin DOMAIN db
        /\ db' = db @@ (id :> NewRow(pid, stage, atype, priority, assigned_to,
                                     due_date, now))
        /\ queue' = queue \cup {NewQueueEntry(id, pid, stage, atype, priority,
                                              assigned_to, due_date, now)}
        /\ pendingSet' = pendingSet \cup {id}
        /\ userAssign' = IF Truthy(assigned_to)
                         THEN [userAssign EXCEPT ![assigned_to] = @ \cup {id}]
                         ELSE userAssign
        /\ lastOp' = [op |-> "create", ok |-> TRUE]
        /\ listed' = <<>>
        /\ UNCHANGED now

\* submit_approval_response without the check of the status
ResponseAcceptedAnyStatus(id) == id \in DOMAIN db

\* submit_approval_response: the two checks before the update
ResponseAccepted(id) ==
    /\ id \in DOMAIN db
    /\ db[id].status = "pending"

NewStatus(r) ==
    IF r.approved THEN "approved"
    ELSE IF Truthy(r.revision_notes) THEN "revision_requested"
    ELSE "rejected"

RespondedRow(row, r, nowv) ==
    [row EXCEPT !.status = NewStatus(r),
                !.approved_by = r.user_id,
                !.selected_option = r.selected_option,
                !.feedback = r.feedback,
                !.revision_notes = r.revision_notes]

SubmitApprovalResponse(id, r) ==
    IF ResponseAccepted(id)
    THEN /\ db' = [db EXCEPT ![id] = RespondedRow(db[id], r, now)]
         /\ queue' = QueueWithout(id, queue)
         /\ pendingSet' = pendingSet \ {id}
         /\ userAssign' = AssignWithout(id, userAssign, db')
         /\ lastOp' = [op |-> "respond", ok |-> TRUE]
         /\ listed' = <<>>
         /\ UNCHANGED now
    ELSE \* ApprovalServiceError
         /\ lastOp' = [op |-> "respond", ok |-> FALSE]
         /\ listed' = <<>>
         /\ UNCHANGED <<db, queue, pendingSet, userAssign, now>>

\* reassign_approval
ReassignApproval(id, new_assignee) ==
    IF id \in DOMAIN db /\ db[id].status = "pending"
    THEN LET old_assignee == db[id].assigned_to
             removed == IF Truthy(old_assignee)
                        THEN [userAssign EXCEPT ![old_assignee] = @ \ {id}]
                        ELSE userAssign
         IN /\ db' = [db EXCEPT ![id].assigned_to = new_assignee]
            /\ userAssign' = [removed EXCEPT ![new_assignee] = @ \cup {id}]
            /\ lastOp' = [op |-> "reassign", ok |-> TRUE]
            /\ listed' = <<>>
            /\ UNCHANGED <<queue, pendingSet, now>>
    ELSE /\ lastOp' = [op |-> "reassign", ok |-> FALSE]
         /\ listed' = <<>>
         /\ UNCHANGED <<db, queue, pendingSet, userAssign, now>>

\* cancel_approval: the UPDATE has no condition on the status
CancelledRow(row, cancelled_by, nowv) ==
    [row EXCEPT !.status = "rejected",
                !.approved_by = cancelled_by,
                !.feedback = "Cancelled: reason"]

CancelApproval(id, cancelled_by) ==
    /\ db' = IF id \in DOMAIN db
             THEN [db EXCEPT ![id] = CancelledRow(db[id], cancelled_by, now)]
             ELSE db
    /\ queue' = QueueWithout(id, queue)
    /\ pendingSet' = pendingSet \ {id}
    /\ userAssign' = AssignWithout(id, userAssign, db')
    /\ lastOp' = [op |-> "cancel", ok |-> TRUE]
    /\ listed' = <<>>
    /\ UNCHANGED now

\* a sweep that selects by due_date alone
ExpiredIdsAnyStatus(dbv, nowv) ==
    {id \in DOMAIN dbv : /\ dbv[id].due_date # NoDate
                         /\ dbv[id].due_date[1] < nowv}

\* cleanup_expired_approvals, run with no other operation in progress
ExpiredIds(dbv, nowv) ==
    {id \in DOMAIN dbv : /\ dbv[id].status = "pending"
                         /\ dbv[id].due_date # NoDate
                         /\ dbv[id].due_date[1] < nowv}

ExpiredRow(row, nowv) ==
    [row EXCEPT !.status = "rejected",
                !.feedback = "Automatically rejected due to expiration"]

CleanupExpiredApprovals ==
    LET expired == ExpiredIds(db, now)
    IN /\ db' = [id \in DOMAIN db |->
                    IF id \in expired THEN ExpiredRow(db[id], now) ELSE db[id]]
       /\ queue' = {e \in queue : e.approval_id \notin expired}
       /\ pendingSet' = pendingSet \ expired
       /\ userAssign' = [u \in Users |->
                            {id \in userAssign[u] :
                                ~(id \in expired /\ db[id].assigned_to = u)}]
       /\ lastOp' = [op |-> "cleanup", ok |-> TRUE]
       /\ listed' = <<>>
       /\ UNCHANGED now

\* a call of get_pending_approvals
ListPending(user_id, project_id, approval_type, limit) ==
    /\ listed' = GetPendingApprovals(user_id, project_id, approval_type, limit)
    /\ lastOp' = [op |-> "list", ok |-> TRUE]
    /\ UNCHANGED <<db, queue, pendingSet, userAssign, now>>

\* the clock advances
Tick(max_clock) ==
    /\ now + TickStep <= max_clock
    /\ now' = now + TickStep
    /\ lastOp' = [op |-> "tick", ok |-> TRUE]
    /\ listed' = <<>>
    /\ UNCHANGED <<db, queue, pendingSet, userAssign>>

----------------------------------------------------------------------------
(* The approval service, one operation at a time *)

InitApproval ==
    /\ db = <<>>
    /\ queue = {}
    /\ pendingSet = {}
    /\ userAssign = [u \in Users |-> {}]
    /\ now = TickStep
    /\ lastOp = NoOp
    /\ listed = <<>>

Sweepers == {"s1", "s2"}

IdleResponse == [pc |-> "idle", id |-> 0, r |-> {}]

InitRace ==
    /\ sweeps = [s \in Sweepers |-> [pc |-> "idle", todo |-> {}, written |-> {}]]
    /\ resp = IdleResponse
    /\ responded = <<>>

\* core/models.py: a project after its script was uploaded
NoScreenplay ==
    [exists |-> FALSE, versions |-> <<>>, merged_content |-> "",
     approved_content |-> "None"]

NoGen == [ran |-> FALSE, providers |-> <<>>, requested |-> {}, out |-> <<>>,
          merger |-> "ok", error |-> "None", version_providers |-> <<>>]

InitGen ==
    /\ project = [status |-> "created", current_stage |-> "script_input",
                  error_message |-> "None"]
    /\ screenplay = NoScreenplay
    /\ shots = [exists |-> FALSE]
    /\ lastGen = NoGen

\* core/pipeline.py: no pipeline_state.json yet, no run in progress
CHECKPOINTS ==
    <<"input", "screenplay_formatted", "screenplay_merged", "shots_broken",
      "characters_extracted", "image_prompts_generated", "final">>

Stages == {CHECKPOINTS[i] : i \in 1..Len(CHECKPOINTS)}

NoFile == [kind |-> "absent", checkpoint |-> "input", data |-> {}]

InitPipe ==
    /\ file = NoFile
    /\ mem = NoFile
    /\ ckpt = "input"
    /\ ppc = "stopped"
    /\ crashes = 0
    /\ execs = [st \in Stages |-> 0]
    /\ outcome = "none"
    /\ saved = NoFile

IdleReassign == [pc |-> "idle", id |-> 0, old |-> "None", new |-> "None"]

InitReassign == reas = IdleReassign

\* the three models a ScreenplayFormattingAgent is built with
FanProviders == {"openai", "claude", "gemini"}

NoResult == [succeeded |-> FALSE, content |-> "pending", error |-> 0]

IdleCall == [st |-> "idle", attempts |-> 0, last_exception |-> 0,
             raised |-> FALSE, result |-> NoResult]

InitFan ==
    /\ calls = [p \in FanProviders |-> IdleCall]
    /\ fanpc = "idle"

\* create_project of api/main.py
InitHook == hook = [status |-> "created", checkpoint |-> "input"]

\* the stages process_project walks through, in order
DriveStages == <<"screenplay", "shots", "characters", "final">>

\* the progress keys of a project, in order
ProgressStages == <<"input", "screenplay", "shots", "characters", "final">>

Drives == {"t1", "t2"}

IdleTask == [pc |-> "idle", idx |-> 0, wake |-> 0]

\* create_project of app.py; no start-processing request has arrived
InitDrive ==
    /\ projects_db =
          [status |-> "created", current_stage |-> "input",
           progress |-> [s \in {ProgressStages[i] : i \in 1..Len(ProgressStages)} |->
                            IF s = "input" THEN "completed" ELSE "pending"]]
    /\ tasks = [t \in Drives |-> IdleTask]
    /\ clock = 0

\* a screenplay text, by what the scorer and the validator count in it:
\* INT./EXT. lines, distinct all-capitals lines, dialogue lines, FADE IN:/FADE
\* OUT: and CUT TO:/DISSOLVE TO: markers, characters
EmptyText ==
    [scenes |-> 0, names |-> 0, dialogue |-> 0, fades |-> 0, cuts |-> 0,
     length |-> 0]

NoScore == [ran |-> FALSE, text |-> EmptyText, score |-> 0]

NoMerge ==
    [ran |-> FALSE, versions |-> <<>>, strategy |-> "consensus",
     raised |-> FALSE, content |-> EmptyText, version_providers |-> <<>>,
     validation_issues |-> {}, quality_score |-> 0, success |-> FALSE]

InitMerge ==
    /\ scored = NoScore
    /\ merged = NoMerge
    /\ cons = <<>>

IdleCreate == [pc |-> "idle", id |-> 0, stage |-> "None",
               assigned_to |-> "None", due_date |-> NoDate]

NoQuery == [user_id |-> "None", limit |-> 0]

InitSvc ==
    /\ sent = <<>>
    /\ crt = IdleCreate
    /\ query = NoQuery

Init ==
    /\ InitApproval /\ InitRace /\ InitGen /\ InitPipe /\ InitReassign
    /\ InitFan
    /\ InitHook
    /\ InitDrive
    /\ InitMerge
    /\ InitSvc

\* the requests the pipeline and the API file: stage, assigned_to and the
\* hours from now to due_date (none, already past, or ahead)
Requests ==
    { [stage |-> "screenplay_generation", assigned_to |-> "None", due_in |-> <<>>],
      [stage |-> "screenplay_generation", assigned_to |-> "u1", due_in |-> <<0 - 1>>],
      [stage |-> "character_design", assigned_to |-> "u1",
       due_in |-> <<DueSoonHours>>] }

DueDate(due_in) == IF due_in = <<>> THEN NoDate ELSE <<now + due_in[1]>>

Create ==
    /\ Cardinality(DOMAIN db) < MaxReq
    /\ \E q \in Requests :
        CreateApprovalRequest(Cardinality(DOMAIN db) + 1, "p1", q.stage,
                              "screenplay", 2, q.assigned_to, DueDate(q.due_in))
    /\ UNCHANGED exceptApprovalVars

Respond ==
    /\ \E id \in Ids, r \in Responses : SubmitApprovalResponse(id, r)
    /\ UNCHANGED exceptApprovalVars

Reassign ==
    /\ \E id \in Ids : ReassignApproval(id, "u2")
    /\ UNCHANGED exceptApprovalVars

Cancel ==
    /\ \E id \in Ids : CancelApproval(id, "u1")
    /\ UNCHANGED exceptApprovalVars

Cleanup == CleanupExpiredApprovals /\ UNCHANGED exceptApprovalVars

Next ==
    \/ Create
    \/ Respond
    \/ Reassign
    \/ Cancel
    \/ Cleanup

Spec == Init /\ [][Next]_vars

----------------------------------------------------------------------------
(* Claims about the approval service *)

IsPending(id) == id \in DOMAIN db /\ db[id].status = "pending"

\* C1: at most one pending approval request exists per (project_id, stage).
SinglePendingPerStage ==
    \A a \in DOMAIN db, b \in DOMAIN db :
        ( /\ db[a].status = "pending" /\ db[b].status = "pending"
          /\ db[a].project_id = db[b].project_id
          /\ db[a].stage = db[b].stage ) => a = b

\* C2: once a request has left pending, no later operation changes its
\* status, resolver or feedback, and its row is never removed.
TerminalIsFinal ==
    [][\A id \in DOMAIN db :
          db[id].status # "pending" =>
              /\ id \in DOMAIN db'
              /\ db'[id].status = db[id].status
              /\ db'[id].approved_by = db[id].approved_by
              /\ db'[id].feedback = db[id].feedback]_vars

\* C3: a response to a request that is not pending, or to an unknown id,
\* fails and leaves the table and the pending queue as they were; no
\* response changes a resolved request.
RespondRejectsNonPending ==
    [][lastOp'.op = "respond" =>
          /\ \A id \in Ids :
                ( /\ ~IsPending(id)
                  /\ \E r \in Responses : SubmitApprovalResponse(id, r) )
                => /\ lastOp' = [op |-> "respond", ok |-> FALSE]
                   /\ UNCHANGED <<db, queue, pendingSet, userAssign>>
          /\ \A id \in DOMAIN db :
                db[id].status # "pending" => db'[id] = db[id]]_vars

\* C3 witness: a response has just failed while every request on file is
\* already resolved.
RespondRejectedWitness ==
    /\ lastOp = [op |-> "respond", ok |-> FALSE]
    /\ DOMAIN db # {}
    /\ \A id \in DOMAIN db : db[id].status # "pending"

HistoryLimit == 50

\* get_approval_history: the ids of the rows returned, the most recent
\* requested_at first (rows of equal requested_at taken by id)
GetApprovalHistory(project_id, limit) ==
    LET rows == {id \in DOMAIN db : db[id].project_id = project_id}
        Before(j, id) ==
            \/ db[j].requested_at > db[id].requested_at
            \/ db[j].requested_at = db[id].requested_at /\ j > id
    IN {id \in rows : Cardinality({j \in rows : Before(j, id)}) < limit}

----------------------------------------------------------------------------
(* Overlapping calls: submit_approval_response and cleanup_expired_approvals *)
(* step by step.  Each call runs in its own database session (READ          *)
(* COMMITTED): a SELECT reads the committed rows, an UPDATE locks its row    *)
(* until the session commits and is applied to the row as committed then;    *)
(* the Redis commands take effect at once.                                   *)

LockedBy(s, id) == id \in sweeps[s].written

Locked(id) == \E s \in Sweepers : LockedBy(s, id)

\* submit_approval_response, lines 250-259: the SELECT and the two checks
RespSelect(id, r) ==
    /\ resp.pc = "idle"
    /\ IF ResponseAccepted(id)
       THEN /\ resp' = [pc |-> "update", id |-> id, r |-> r]
            /\ UNCHANGED lastOp
       ELSE /\ lastOp' = [op |-> "respond", ok |-> FALSE]
            /\ UNCHANGED resp
    /\ listed' = <<>>
    /\ UNCHANGED <<db, queue, pendingSet, userAssign, now, sweeps, responded>>

\* lines 269-282: UPDATE ... WHERE id = approval_id, and the commit
RespUpdate ==
    /\ resp.pc = "update"
    /\ ~Locked(resp.id)
    /\ db' = [db EXCEPT ![resp.id] = RespondedRow(db[resp.id], resp.r, now)]
    /\ responded' = [id \in DOMAIN responded \cup {resp.id} |->
                        IF id = resp.id THEN db'[id] ELSE responded[id]]
    /\ resp' = [resp EXCEPT !.pc = "remove"]
    /\ UNCHANGED <<queue, pendingSet, userAssign, now, lastOp, listed, sweeps>>

\* lines 284-305: _remove_from_queue and the return
RespRemove ==
    /\ resp.pc = "remove"
    /\ queue' = QueueWithout(resp.id, queue)
    /\ pendingSet' = pendingSet \ {resp.id}
    /\ userAssign' = AssignWithout(resp.id, userAssign, db)
    /\ lastOp' = [op |-> "respond", ok |-> TRUE]
    /\ resp' = IdleResponse
    /\ UNCHANGED <<db, now, listed, sweeps, responded>>

\* cleanup_expired_approvals, lines 586-594: the SELECT of the expired rows
SweepSelect(s) ==
    /\ sweeps[s].pc = "idle"
    /\ sweeps' = [sweeps EXCEPT ![s] = [pc |-> "loop",
                                        todo |-> ExpiredIds(db, now),
                                        written |-> {}]]
    /\ UNCHANGED <<approvalVars, resp, responded>>

\* lines 596-609: one turn of the loop, the UPDATE ... WHERE id = approval.id
\* and _remove_from_queue
SweepUpdate(s) ==
    /\ sweeps[s].pc = "loop"
    /\ \E id \in sweeps[s].todo :
        /\ \A t \in Sweepers \ {s} : ~LockedBy(t, id)
        /\ sweeps' = [sweeps EXCEPT ![s].todo = @ \ {id},
                                    ![s].written = @ \cup {id}]
        /\ queue' = QueueWithout(id, queue)
        /\ pendingSet' = pendingSet \ {id}
        /\ userAssign' = AssignWithout(id, userAssign, db)
    /\ UNCHANGED <<db, now, lastOp, listed, resp, responded>>

\* line 611: the commit makes the updates of this call visible
SweepCommit(s) ==
    /\ sweeps[s].pc = "loop"
    /\ sweeps[s].todo = {}
    /\ db' = [id \in DOMAIN db |->
                 IF id \in sweeps[s].written THEN ExpiredRow(db[id], now)
                 ELSE db[id]]
    /\ sweeps' = [sweeps EXCEPT ![s] = [pc |-> "idle", todo |-> {},
                                        written |-> {}]]
    /\ lastOp' = [op |-> "cleanup", ok |-> TRUE]
    /\ UNCHANGED <<queue, pendingSet, userAssign, now, listed, resp, responded>>

\* lines 616-617: two calls wait for each other's row; the database ends one
\* of them with an error, its session is rolled back
SweepDeadlock(s) ==
    /\ sweeps[s].pc = "loop"
    /\ \E t \in Sweepers \ {s} :
        /\ sweeps[t].pc = "loop"
        /\ sweeps[s].todo # {} /\ sweeps[s].todo \subseteq sweeps[t].written
        /\ sweeps[t].todo # {} /\ sweeps[t].todo \subseteq sweeps[s].written
    /\ sweeps' = [sweeps EXCEPT ![s] = [pc |-> "idle", todo |-> {},
                                        written |-> {}]]
    /\ lastOp' = [op |-> "cleanup", ok |-> FALSE]
    /\ UNCHANGED <<db, queue, pendingSet, userAssign, now, listed, resp,
                   responded>>

RaceRespSelect ==
    /\ \E id \in Ids, r \in Responses : RespSelect(id, r)
    /\ UNCHANGED exceptRaceVars

RaceRespUpdate == RespUpdate /\ UNCHANGED exceptRaceVars

RaceRespRemove == RespRemove /\ UNCHANGED exceptRaceVars

RaceSweepSelect ==
    /\ \E s \in Sweepers : SweepSelect(s)
    /\ UNCHANGED exceptRaceVars

RaceSweepUpdate ==
    /\ \E s \in Sweepers : SweepUpdate(s)
    /\ UNCHANGED exceptRaceVars

RaceSweepCommit ==
    /\ \E s \in Sweepers : SweepCommit(s)
    /\ UNCHANGED exceptRaceVars

RaceSweepDeadlock ==
    /\ \E s \in Sweepers : SweepDeadlock(s)
    /\ UNCHANGED exceptRaceVars

NextRace ==
    \/ Create
    \/ RaceRespSelect
    \/ RaceRespUpdate
    \/ RaceRespRemove
    \/ RaceSweepSelect
    \/ RaceSweepUpdate
    \/ RaceSweepCommit
    \/ RaceSweepDeadlock

SpecRace == Init /\ [][NextRace]_vars

\* C4: the sweep is safe to run while a response is in progress: a request
\* that a response has resolved keeps the status, resolver and feedback the
\* response recorded and is never overwritten by the sweep.
ResponseSurvivesSweep ==
    \A id \in DOMAIN responded :
        /\ db[id].status = responded[id].status
        /\ db[id].approved_by = responded[id].approved_by
        /\ db[id].feedback = responded[id].feedback

----------------------------------------------------------------------------
(* Screenplay generation and shot division, src/api/enhanced_main.py *)

\* the agents dictionary of process_screenplay_generation, in insertion order
ProviderOrder == <<"openai", "claude", "gemini">>

AllProviders == {ProviderOrder[i] : i \in 1..Len(ProviderOrder)}

\* what one provider's agent.process does: returns a screenplay, returns an
\* empty text, or raises
ProviderOutcomes == {"ok", "empty", "fail"}

\* what the merger's own model call does: a well-formed screenplay, a text
\* that fails validate_screenplay_format, or an exception after the retries
MergerOutcomes == {"ok", "invalid", "fail"}

StageOrder ==
    <<"script_input", "screenplay_generation", "shot_division",
      "production_planning", "character_design", "scene_generation",
      "video_generation", "final_synthesis">>

StageIndex(st) == CHOOSE i \in 1..Len(StageOrder) : StageOrder[i] = st

\* lines 506-521: the versions collected from the results of asyncio.gather
CollectVersions(requested, out) ==
    LET Returned(p) == p \in requested /\ out[p] # "fail"
        kept == SelectSeq(ProviderOrder, Returned)
    IN [i \in 1..Len(kept) |->
           [provider |-> kept[i],
            content |-> IF out[kept[i]] = "ok" THEN "text" ELSE "",
            success |-> TRUE]]

\* ScreenplayMergerAgent.process, lines 54-55: the least number of versions
MinVersions == 2

\* ScreenplayMergerAgent.process, lines 52-98: the error it raises, or None
MergeError(versions, merger) ==
    LET IsValid(v) == v.success /\ v.content # ""
    IN IF Len(versions) < MinVersions
       THEN "At least 2 screenplay versions required"
       ELSE IF SelectSeq(versions, IsValid) = <<>>
       THEN "No valid screenplay versions to merge"
       ELSE IF merger = "fail" THEN "Screenplay merge failed"
       ELSE "None"

\* ScreenplayMergerAgent.process, lines 58 and 80: version_providers of the
\* merged result
VersionProviders(versions) ==
    LET IsValid(v) == v.success /\ v.content # ""
        valid == SelectSeq(versions, IsValid)
    IN [i \in 1..Len(valid) |-> valid[i].provider]

\* the use_providers lists a request carries: every order of every subset of
\* the providers
ProviderLists ==
    {l \in UNION {[1..n -> AllProviders] : n \in 0..Len(ProviderOrder)} :
        \A i, j \in DOMAIN l : i # j => l[i] # l[j]}

\* the default use_providers of ScreenplayGenerationRequest and its sub-lists
DefaultLists ==
    {l \in ProviderLists :
        \A i, j \in DOMAIN l :
            i < j => \E a, b \in DOMAIN ProviderOrder :
                        a < b /\ ProviderOrder[a] = l[i] /\ ProviderOrder[b] = l[j]}

\* an except clause that also sends the project back to the first stage
FailedProjectRestarted(proj, err) ==
    [proj EXCEPT !.status = "failed", !.error_message = err,
                 !.current_stage = "script_input"]

\* the except clauses of the two background tasks, lines 556-567 and 621-632
FailedProject(proj, err) ==
    [proj EXCEPT !.status = "failed", !.error_message = err]

\* process_screenplay_generation
ProcessScreenplayGeneration(providers, out, merger) ==
    LET requested == {providers[i] : i \in DOMAIN providers}
        versions == CollectVersions(requested, out)
        err == IF versions = <<>> THEN "All providers failed"
               ELSE MergeError(versions, merger)
        content == IF merger = "invalid" THEN "malformed" ELSE "merged"
    IN /\ lastGen' = [ran |-> TRUE, providers |-> providers,
                      requested |-> requested, out |-> out,
                      merger |-> merger, error |-> err,
                      version_providers |->
                          IF err = "None" THEN VersionProviders(versions)
                          ELSE <<>>]
       /\ IF err = "None"
          THEN /\ screenplay' =
                    IF screenplay.exists THEN screenplay
                    ELSE [exists |-> TRUE,
                          versions |-> [i \in 1..Len(versions) |->
                                           versions[i].provider],
                          merged_content |-> content,
                          approved_content |-> content]
               /\ project' = [project EXCEPT
                                 !.current_stage = "screenplay_generation",
                                 !.status = "processing"]
          ELSE /\ project' = FailedProject(project, err)
               /\ UNCHANGED screenplay
       /\ UNCHANGED shots

\* generate_shot_division and process_shot_division
ProcessShotDivision(agent_ok) ==
    /\ screenplay.exists
    /\ screenplay.merged_content # ""
    /\ IF agent_ok
       THEN /\ shots' = [exists |-> TRUE]
            /\ project' = [project EXCEPT !.current_stage = "shot_division"]
       ELSE /\ project' = FailedProject(project,
                                        "Shot division processing failed")
            /\ UNCHANGED shots
    /\ UNCHANGED <<screenplay, lastGen>>

\* generate_screenplay with a use_providers list drawn from lists and each
\* provider's outcome drawn from outcomes
GenerateFrom(lists, outcomes) ==
    \E providers \in lists :
    \E out \in [AllProviders -> outcomes \cup {"fail"}] :
    \E merger \in MergerOutcomes :
        /\ \A p \in AllProviders :
               (\A i \in DOMAIN providers : providers[i] # p) => out[p] = "fail"
        /\ ProcessScreenplayGeneration(providers, out, merger)

\* the provider list is tested for membership only (lines 486-497): the
\* lists in default order stand for every order here
GenerateScreenplay ==
    /\ GenerateFrom(DefaultLists, ProviderOutcomes)
    /\ UNCHANGED exceptGenVars

\* every order of the list, each provider succeeding or raising
GenerateScreenplayAnyOrder ==
    /\ GenerateFrom(ProviderLists, {"ok"})
    /\ UNCHANGED exceptGenVars

DivideShots ==
    /\ \E agent_ok \in BOOLEAN : ProcessShotDivision(agent_ok)
    /\ UNCHANGED exceptGenVars

NextGen ==
    \/ GenerateScreenplay
    \/ DivideShots

SpecGen == Init /\ [][NextGen]_vars

NextGenOrder ==
    \/ GenerateScreenplayAnyOrder
    \/ DivideShots

SpecGenOrder == Init /\ [][NextGenOrder]_vars

\* C5: the project is past a gated stage, or the stage's output is recorded
\* as approved, only if an approval of that stage with status approved exists.
GatedStageApproved ==
    ( \/ StageIndex(project.current_stage) > StageIndex("screenplay_generation")
      \/ screenplay.exists /\ Truthy(screenplay.approved_content) )
    => \E id \in DOMAIN db : /\ db[id].stage = "screenplay_generation"
                             /\ db[id].status = "approved"

\* C12: a generation that fails because no provider produced a candidate, and
\* a shot division whose agent fails, mark the project failed with the error
\* recorded and leave its current stage and its stored outputs as they were.
FailureKeepsCheckpoint ==
    [][ /\ ( /\ lastGen'.error = "All providers failed"
              /\ ProcessScreenplayGeneration(lastGen'.providers, lastGen'.out,
                                             lastGen'.merger) )
           => /\ project'.status = "failed"
              /\ project'.error_message = "All providers failed"
              /\ project'.current_stage = project.current_stage
              /\ UNCHANGED <<screenplay, shots>>
        /\ ProcessShotDivision(FALSE)
           => /\ project'.status = "failed"
              /\ project'.error_message = "Shot division processing failed"
              /\ project'.current_stage = project.current_stage
              /\ UNCHANGED <<screenplay, shots>> ]_vars

\* a retry has failed with no candidate after an earlier generation had
\* succeeded: the project is failed, still at the stage reached before
FailureKeepsCheckpointWitness ==
    /\ lastGen.ran
    /\ lastGen.error = "All providers failed"
    /\ project.status = "failed"
    /\ project.error_message = "All providers failed"
    /\ project.current_stage = "screenplay_generation"
    /\ screenplay.exists
    /\ ~shots.exists

\* C7: with 3 providers, the stage does not fail as long as at least one of
\* them succeeds (the merger's own model call working), and fails with the
\* no-candidates error when none does.
Succeeded(g) == {p \in g.requested : g.out[p] = "ok"}

PartialFailureTolerated ==
    (lastGen.ran /\ lastGen.requested = AllProviders) =>
        /\ (Succeeded(lastGen) # {} /\ lastGen.merger # "fail")
               => lastGen.error = "None"
        /\ (\A p \in AllProviders : lastGen.out[p] = "fail")
               => lastGen.error = "All providers failed"

----------------------------------------------------------------------------
(* The checkpointed pipeline, src/core/pipeline.py.  One run of run_pipeline
   is a sequence of steps; the process can be killed between any two of
   them, which loses the run's memory and keeps the state file. *)

MaxCrashes == 2

\* the most times one stage is executed over all the runs followed
MaxExecs == 2

CheckpointIndex(c) == CHOOSE i \in 1..Len(CHECKPOINTS) : CHECKPOINTS[i] = c

NextCheckpoint(c) == CHECKPOINTS[CheckpointIndex(c) + 1]

\* the stage data a stage block reads with state.get_data
Needs(c) ==
    CASE c = "input" -> {}
      [] c = "screenplay_formatted" -> {"input"}
      [] c = "screenplay_merged" -> {"screenplay_formatted"}
      [] c = "shots_broken" -> {"screenplay_merged"}
      [] c = "characters_extracted" -> {"screenplay_merged"}
      [] c = "image_prompts_generated" -> {"shots_broken", "screenplay_merged"}
      [] OTHER -> {}

\* open(state_file, "w") has truncated the file and json.dump has not run
TornFile == [kind |-> "torn", checkpoint |-> "input", data |-> {}]

\* a set_checkpoint that moves the checkpoint and stores no data
SetCheckpointOnly(st, checkpoint, has_data) ==
    [st EXCEPT !.checkpoint = checkpoint]

\* set_checkpoint, lines 50-52: the data is stored when it is truthy
SetCheckpoint(st, checkpoint, has_data) ==
    [st EXCEPT !.checkpoint = checkpoint,
               !.data = IF has_data THEN @ \cup {checkpoint} ELSE @]

\* PipelineState() and get_checkpoint: lines 93-94 with lines 35-43, 55-56
PipeStart(resume) ==
    /\ ppc = "stopped"
    /\ outcome \in {"none", "crashed", "final"}
    /\ IF file.kind = "torn"
       THEN /\ outcome' = "corrupt_state"
            /\ UNCHANGED <<mem, ckpt, ppc>>
       ELSE /\ mem' = IF file.kind = "absent"
                      THEN [kind |-> "ok", checkpoint |-> "input", data |-> {}]
                      ELSE file
            /\ ckpt' = IF resume THEN mem'.checkpoint ELSE "input"
            /\ ppc' = "gen"
            /\ outcome' = "running"
    /\ UNCHANGED <<file, crashes, execs, saved>>

\* the body of one stage block up to the first two lines of set_checkpoint
\* (lines 50-52): the stage's data is computed and put in the memory state
PipeGenerate(has_script, gen_ok) ==
    /\ ppc = "gen"
    /\ ckpt # "final"
    /\ execs[ckpt] < MaxExecs
    /\ IF ckpt = "input" /\ ~has_script
       THEN /\ outcome' = "no_script"
            /\ ppc' = "stopped"
            /\ UNCHANGED <<mem, execs>>
       ELSE IF ~(Needs(ckpt) \subseteq mem.data)
       THEN /\ outcome' = "missing_data"
            /\ ppc' = "stopped"
            /\ UNCHANGED <<mem, execs>>
       ELSE IF ~gen_ok
       THEN /\ outcome' = "stage_failed"
            /\ ppc' = "stopped"
            /\ execs' = [execs EXCEPT ![ckpt] = @ + 1]
            /\ UNCHANGED mem
       ELSE /\ execs' = [execs EXCEPT ![ckpt] = @ + 1]
            /\ mem' = SetCheckpoint(mem, ckpt, TRUE)
            /\ ppc' = "open"
            /\ UNCHANGED outcome
    /\ UNCHANGED <<file, ckpt, crashes, saved>>

\* save_state, line 46: open(state_file, "w") truncates the file
PipeOpen ==
    /\ ppc = "open"
    /\ file' = TornFile
    /\ ppc' = "dump"
    /\ UNCHANGED <<mem, ckpt, crashes, execs, outcome, saved>>

\* save_state, line 47: json.dump writes the memory state, the file is closed
PipeDump ==
    /\ ppc = "dump"
    /\ file' = mem
    /\ saved' = mem
    /\ ppc' = "approve"
    /\ UNCHANGED <<mem, ckpt, crashes, execs, outcome>>

\* human_approval returns and the local checkpoint moves on
PipeApprove ==
    /\ ppc = "approve"
    /\ ckpt' = NextCheckpoint(ckpt)
    /\ ppc' = "gen"
    /\ UNCHANGED <<file, mem, crashes, execs, outcome, saved>>

\* lines 160-162
PipeFinal ==
    /\ ppc = "gen"
    /\ ckpt = "final"
    /\ outcome' = "final"
    /\ ppc' = "stopped"
    /\ UNCHANGED <<file, mem, ckpt, crashes, execs, saved>>

\* the process is killed: what it held in memory is gone, the file stays
PipeCrash ==
    /\ ppc # "stopped"
    /\ crashes < MaxCrashes
    /\ crashes' = crashes + 1
    /\ ppc' = "stopped"
    /\ outcome' = "crashed"
    /\ mem' = NoFile
    /\ ckpt' = "input"
    /\ UNCHANGED <<file, execs, saved>>

RunStart ==
    /\ \E resume \in BOOLEAN : PipeStart(resume)
    /\ UNCHANGED exceptPipeVars

RunGenerate ==
    /\ \E has_script \in BOOLEAN : \E gen_ok \in BOOLEAN :
           PipeGenerate(has_script, gen_ok)
    /\ UNCHANGED exceptPipeVars

RunOpen == PipeOpen /\ UNCHANGED exceptPipeVars

RunDump == PipeDump /\ UNCHANGED exceptPipeVars

RunApprove == PipeApprove /\ UNCHANGED exceptPipeVars

RunFinal == PipeFinal /\ UNCHANGED exceptPipeVars

RunCrash == PipeCrash /\ UNCHANGED exceptPipeVars

NextPipe ==
    \/ RunStart
    \/ RunGenerate
    \/ RunOpen
    \/ RunDump
    \/ RunApprove
    \/ RunFinal
    \/ RunCrash

SpecPipe == Init /\ [][NextPipe]_vars

\* C6: once the checkpoint of a stage has been persisted, an interruption
\* loses no completed stage's data (the file of a stopped pipeline holds the
\* last persisted state) and a run entered with resume never fails to read
\* the persisted state.
ResumeKeepsCheckpoint ==
    saved.kind = "ok" =>
        /\ outcome # "corrupt_state"
        /\ (ppc = "stopped" => file = saved)

\* C25: whenever the persisted checkpoint names a stage, the persisted state
\* holds the data entry of that stage and of every stage before it.
PersistedCheckpointHasData ==
    file.kind = "ok" =>
        \A i \in 1..CheckpointIndex(file.checkpoint) : CHECKPOINTS[i] \in file.data

\* the checkpoint of the fourth stage is persisted with the data of the
\* four stages up to it
PersistedCheckpointHasDataWitness ==
    /\ file.kind = "ok"
    /\ file.checkpoint = "shots_broken"
    /\ file.data = {CHECKPOINTS[i] : i \in 1..CheckpointIndex("shots_broken")}

\* C27: the checkpoint is persisted after every transition, the last one
\* included: a run that ends at the final stage leaves "final" persisted,
\* and a run with resume started after it begins at the final stage, so
\* that it executes no stage again.
FinalCheckpointPersisted ==
    [][ /\ outcome' = "final"
            => file'.kind = "ok" /\ file'.checkpoint = "final"
        /\ (outcome = "final" /\ PipeStart(TRUE)) => ckpt' = "final" ]_vars

----------------------------------------------------------------------------
(* The order of get_pending_approvals as the clock advances *)

MaxOrderReq == 3     \* requests filed
MaxTicks == 3        \* steps of the clock

\* the requests filed: priority and the hours from now to due_date
OrderRequests ==
    { [priority |-> 1, due_in |-> <<>>],
      [priority |-> 1, due_in |-> <<DueSoonHours>>],
      [priority |-> 2, due_in |-> <<>>],
      [priority |-> 3, due_in |-> <<>>],
      [priority |-> 5, due_in |-> <<>>] }

File ==
    /\ Cardinality(DOMAIN db) < MaxOrderReq
    /\ \E q \in OrderRequests :
        CreateApprovalRequest(Cardinality(DOMAIN db) + 1, "p1",
                              "screenplay_generation", "screenplay",
                              q.priority, "None", DueDate(q.due_in))
    /\ UNCHANGED exceptApprovalVars

Advance ==
    /\ Tick(TickStep * (MaxTicks + 1))
    /\ UNCHANGED exceptApprovalVars

\* GET /api/approvals/pending with no filter and the default limit
ListAll ==
    /\ ListPending("None", "None", "None", DefaultLimit)
    /\ UNCHANGED exceptApprovalVars

NextOrder ==
    \/ File
    \/ Advance
    \/ ListAll

SpecOrder == Init /\ [][NextOrder]_vars

Position(id) == CHOOSE i \in 1..Len(listed) : listed[i] = id

IsListed(id) == \E i \in 1..Len(listed) : listed[i] = id

ListedBefore(a, b) == IsListed(a) /\ IsListed(b) /\ Position(a) < Position(b)

PendingNoDue(id) == IsPending(id) /\ db[id].due_date = NoDate

\* the priority score of a request evaluated at the current time
ScoreNow(id) ==
    CalculatePriorityScore(db[id].priority, db[id].requested_at,
                           db[id].due_date, now)

\* C8: the list returned by get_pending_approvals is in descending order of
\* the priority scores evaluated at the time of the read.
ListedByScoreAtRead ==
    lastOp.op = "list" =>
        \A i, j \in 1..Len(listed) :
            i < j => ScoreNow(listed[i]) >= ScoreNow(listed[j])

\* the age, in hours, from which the age bonus no longer grows
AgeAtCap == AgeCap \div AgeRate

\* C9 as stated: a pending request that has aged until its age bonus is at
\* its largest is listed ahead of every later-created request of higher
\* priority without a due date.
OldRequestOutranksNewer ==
    lastOp.op = "list" =>
        \A l, h \in DOMAIN db :
            ( /\ IsPending(l) /\ PendingNoDue(h)
              /\ db[l].priority < db[h].priority
              /\ db[l].requested_at < db[h].requested_at
              /\ now - db[l].requested_at >= AgeAtCap )
            => ListedBefore(l, h)

\* C9 amended: the age bonus of a request is at most AgeCap however long the
\* request has been pending, and among pending requests without a due date
\* one of strictly higher priority is always listed ahead of one of lower
\* priority, whatever their ages.
HigherPriorityStaysAhead ==
    /\ \A id \in DOMAIN db :
          CalculatePriorityScore(db[id].priority, db[id].requested_at,
                                 NoDate, now)
              <= db[id].priority * PriorityWeight + AgeCap
    /\ lastOp.op = "list" =>
          \A l, h \in DOMAIN db :
              ( /\ PendingNoDue(l) /\ PendingNoDue(h)
                /\ db[l].priority < db[h].priority )
              => ListedBefore(h, l)

\* a request older than the age at which the bonus stops growing is listed
\* behind a later request of higher priority
HigherPriorityStaysAheadWitness ==
    /\ lastOp.op = "list"
    /\ \E l, h \in DOMAIN db :
          /\ PendingNoDue(l) /\ PendingNoDue(h)
          /\ db[l].priority < db[h].priority
          /\ db[l].requested_at < db[h].requested_at
          /\ now - db[l].requested_at > AgeAtCap
          /\ ListedBefore(h, l)

\* C10: pending requests of equal age and without due dates are all listed,
\* in descending order of priority, whatever the order of their filing.
EqualAgeListedByPriority ==
    lastOp.op = "list" =>
        /\ \A id \in DOMAIN db : PendingNoDue(id) => IsListed(id)
        /\ \A a, b \in DOMAIN db :
              ( /\ PendingNoDue(a) /\ PendingNoDue(b)
                /\ db[a].requested_at = db[b].requested_at
                /\ db[a].priority > db[b].priority )
              => ListedBefore(a, b)

\* priorities filed as 1, 5, 3 at the same time are listed as 5, 3, 1
EqualAgeListedByPriorityWitness ==
    /\ lastOp.op = "list"
    /\ DOMAIN db = {1, 2, 3}
    /\ \A id \in DOMAIN db : PendingNoDue(id) /\ db[id].requested_at = db[1].requested_at
    /\ db[1].priority = 1 /\ db[2].priority = 5 /\ db[3].priority = 3
    /\ listed = <<2, 3, 1>>

----------------------------------------------------------------------------
(* reassign_approval step by step: the database session, then the two Redis
   commands.  A Redis command can raise; the except clause then returns
   False and nothing is undone. *)

\* lines 363-382: the SELECT, the check, the UPDATE and the commit
ReasUpdate(id, new_assignee) ==
    /\ reas.pc = "idle"
    /\ IF id \in DOMAIN db /\ db[id].status = "pending"
       THEN /\ reas' = [pc |-> "srem", id |-> id, old |-> db[id].assigned_to,
                        new |-> new_assignee]
            /\ db' = [db EXCEPT ![id].assigned_to = new_assignee]
            /\ UNCHANGED lastOp
       ELSE /\ lastOp' = [op |-> "reassign", ok |-> FALSE]
            /\ UNCHANGED <<db, reas>>
    /\ listed' = <<>>
    /\ UNCHANGED <<queue, pendingSet, userAssign, now>>

\* lines 385-389: srem from the old assignee's set, if there was an assignee
ReasSrem ==
    /\ reas.pc = "srem"
    /\ userAssign' = IF Truthy(reas.old)
                     THEN [userAssign EXCEPT ![reas.old] = @ \ {reas.id}]
                     ELSE userAssign
    /\ reas' = [reas EXCEPT !.pc = "sadd"]
    /\ UNCHANGED <<db, queue, pendingSet, now, lastOp, listed>>

\* lines 391-405: sadd to the new assignee's set, the notification, return
ReasSadd ==
    /\ reas.pc = "sadd"
    /\ userAssign' = [userAssign EXCEPT ![reas.new] = @ \cup {reas.id}]
    /\ reas' = IdleReassign
    /\ lastOp' = [op |-> "reassign", ok |-> TRUE]
    /\ UNCHANGED <<db, queue, pendingSet, now, listed>>

\* lines 407-409: a Redis command raises, the call returns False
ReasFail ==
    /\ reas.pc \in {"srem", "sadd"}
    /\ reas' = IdleReassign
    /\ lastOp' = [op |-> "reassign", ok |-> FALSE]
    /\ UNCHANGED <<db, queue, pendingSet, userAssign, now, listed>>

StepReasUpdate ==
    /\ \E id \in Ids, u \in Users : ReasUpdate(id, u)
    /\ UNCHANGED exceptReassignVars

StepReasSrem == ReasSrem /\ UNCHANGED exceptReassignVars

StepReasSadd == ReasSadd /\ UNCHANGED exceptReassignVars

StepReasFail == ReasFail /\ UNCHANGED exceptReassignVars

NextReassign ==
    \/ Create
    \/ Respond
    \/ StepReasUpdate
    \/ StepReasSrem
    \/ StepReasSadd
    \/ StepReasFail

SpecReassign == Init /\ [][NextReassign]_vars

\* C11: at every moment the per-user index lists a pending request under
\* exactly the assignee its record names: never under the old assignee,
\* under both or under neither while the record names the new one.
ReassignIsAtomic ==
    \A id \in DOMAIN db :
        IsPending(id) =>
            \A u \in Users : (id \in userAssign[u]) <=> (db[id].assigned_to = u)

----------------------------------------------------------------------------
(* The fan-out of ScreenplayFormattingAgent.process: three provider calls run
   side by side, each through BaseAgent._run_with_retries.  The error raised
   by attempt k is written k. *)

max_retries == 3

\* what call_openai, call_claude and call_gemini return when
\* _run_with_retries raises: None
NoneResult == [succeeded |-> FALSE, content |-> "None", error |-> 0]

ContentResult == [succeeded |-> TRUE, content |-> "text", error |-> 0]

\* lines 25-60: the three calls are created and handed to asyncio.gather
FanStart ==
    /\ fanpc = "idle"
    /\ calls' = [p \in FanProviders |-> [IdleCall EXCEPT !.st = "trying"]]
    /\ fanpc' = "gather"

\* one turn of the loop of _run_with_retries in the call of provider p:
\* func returns, raises, or never returns
Invoke(p, answer) ==
    /\ fanpc = "gather"
    /\ calls[p].st = "trying"
    /\ calls[p].attempts < max_retries
    /\ LET attempt == calls[p].attempts + 1
       IN calls' = [calls EXCEPT ![p] =
            CASE answer = "ok" ->
                    [@ EXCEPT !.attempts = attempt, !.st = "returned",
                              !.result = ContentResult]
              [] answer = "error" /\ attempt < max_retries ->
                    [@ EXCEPT !.attempts = attempt, !.last_exception = attempt]
              [] answer = "error" /\ attempt >= max_retries ->
                    [@ EXCEPT !.attempts = attempt, !.last_exception = attempt,
                              !.raised = TRUE, !.st = "returned",
                              !.result = NoneResult]
              [] OTHER ->
                    [@ EXCEPT !.attempts = attempt, !.st = "waiting"]]
    /\ UNCHANGED fanpc

\* line 60: asyncio.gather returns once every call has returned
GatherDone ==
    /\ fanpc = "gather"
    /\ \A p \in FanProviders : calls[p].st = "returned"
    /\ fanpc' = "done"
    /\ UNCHANGED calls

FanBegin == FanStart /\ UNCHANGED exceptFanVars

FanInvoke ==
    /\ \E p \in FanProviders, answer \in {"ok", "error", "never"} :
           Invoke(p, answer)
    /\ UNCHANGED exceptFanVars

FanGather == GatherDone /\ UNCHANGED exceptFanVars

NextFan ==
    \/ FanBegin
    \/ FanInvoke
    \/ FanGather

SpecFan == Init /\ [][NextFan]_vars

\* every call that can take a step takes it, and gather returns when it can
SpecFanLive ==
    /\ SpecFan
    /\ WF_vars(FanBegin)
    /\ \A p \in FanProviders :
          WF_vars(\E answer \in {"ok", "error", "never"} :
                     Invoke(p, answer) /\ UNCHANGED exceptFanVars)
    /\ WF_vars(FanGather)

\* C13: a provider call is invoked at most max_retries times, not again after
\* a success, and after max_retries failures it yields, without an exception
\* being raised, a failed result that carries the last error.
ExhaustedCallYieldsError ==
    \A p \in FanProviders :
        /\ calls[p].attempts <= max_retries
        /\ calls[p].result.succeeded => calls[p].st = "returned"
        /\ (calls[p].attempts = max_retries /\ calls[p].last_exception = max_retries)
              => /\ ~calls[p].raised
                 /\ ~calls[p].result.succeeded
                 /\ calls[p].result.error = calls[p].last_exception

\* C14: the fan-out of a stage eventually completes, whatever the providers do.
FanOutCompletes == (fanpc = "gather") ~> (fanpc = "done")

----------------------------------------------------------------------------
(* Decisions and the project: the approval service records a decision and
   publishes a notification that no code subscribes to; the approval webhook
   of api/main.py writes the project entry from the request body. *)

\* the values a request body can carry as "checkpoint"
PayloadCheckpoints == Stages \cup {"None"}

\* webhook_approval
WebhookApproval(approved, checkpoint) ==
    hook' = IF approved
            THEN [status |-> "approved", checkpoint |-> checkpoint]
            ELSE [hook EXCEPT !.status = "paused"]

Webhook ==
    /\ \E approved \in BOOLEAN, checkpoint \in PayloadCheckpoints :
           WebhookApproval(approved, checkpoint)
    /\ UNCHANGED exceptHookVars

NextFlow ==
    \/ Create
    \/ Respond
    \/ Webhook

SpecFlow == Init /\ [][NextFlow]_vars

NextStage(st) == StageOrder[StageIndex(st) + 1]

Approving == {r \in Responses : r.approved}

Rejecting == {r \in Responses : NewStatus(r) = "rejected"}

\* C15: an approved response to the pending request of a stage sets the
\* request to approved and moves the project to the stage that follows; an
\* approval received by the webhook moves the checkpoint to the next one.
ApprovedAdvancesStage ==
    [][ /\ \A id \in Ids :
            ( /\ IsPending(id)
              /\ \E r \in Approving : SubmitApprovalResponse(id, r) )
            => /\ db'[id].status = "approved"
               /\ project'.current_stage = NextStage(db[id].stage)
        /\ (hook' # hook /\ \E c \in PayloadCheckpoints : WebhookApproval(TRUE, c))
            => hook'.checkpoint = NextCheckpoint(hook.checkpoint) ]_vars

\* C16: a rejected decision moves the project to failed or paused and leaves
\* its stage where it was.
RejectedStopsProject ==
    [][ /\ \A id \in Ids :
            ( /\ IsPending(id)
              /\ \E r \in Rejecting : SubmitApprovalResponse(id, r) )
            => /\ db'[id].status = "rejected"
               /\ project'.status \in {"failed", "paused"}
               /\ project'.current_stage = project.current_stage
        /\ (\E c \in PayloadCheckpoints : WebhookApproval(FALSE, c))
            => /\ hook'.status \in {"failed", "paused"}
               /\ hook'.checkpoint = hook.checkpoint ]_vars

\* C20: the merged result's version_providers are exactly the providers whose
\* candidates succeeded, in the order of the request's use_providers list.
ContributorsInRequestedOrder ==
    (lastGen.ran /\ lastGen.error = "None") =>
        LET Ok(p) == lastGen.out[p] = "ok"
        IN lastGen.version_providers = SelectSeq(lastGen.providers, Ok)

-----------------------------------------------------------------------------
(* Two start-processing requests for one project (app.py) *)

\* the latest time, in seconds, at which a start-processing request arrives
\* while no task is running
MaxIdle == 6

\* asyncio.sleep(3) after a stage is set active
ActiveSleep == 3

\* asyncio.sleep(1) after a stage is set completed
CompletedSleep == 1

Running(t) == tasks[t].pc \in {"begin", "working", "settled"}

\* a task whose timer has fired: the event loop resumes it
Due(t) == Running(t) /\ tasks[t].wake <= clock

\* start_processing: the project exists, a task is created; it first runs
\* when the handler has returned
StartProcessing(t) ==
    /\ tasks[t].pc = "idle"
    /\ tasks' = [tasks EXCEPT ![t] = [pc |-> "begin", idx |-> 0, wake |-> clock]]
    /\ UNCHANGED <<projects_db, clock>>

\* process_project up to asyncio.sleep(3): the next stage is set active
ProcessActivate(t) ==
    /\ Due(t)
    /\ \/ tasks[t].pc = "begin"
       \/ tasks[t].pc = "settled" /\ tasks[t].idx < Len(DriveStages)
    /\ LET i == tasks[t].idx + 1
           stage == DriveStages[i]
       IN /\ projects_db' =
                [projects_db EXCEPT !.current_stage = stage,
                                    !.progress[stage] = "active"]
          /\ tasks' = [tasks EXCEPT ![t] = [pc |-> "working", idx |-> i,
                                            wake |-> clock + ActiveSleep]]
    /\ UNCHANGED clock

\* process_project from asyncio.sleep(3) to asyncio.sleep(1): the stage is
\* set completed
ProcessComplete(t) ==
    /\ Due(t)
    /\ tasks[t].pc = "working"
    /\ projects_db' =
          [projects_db EXCEPT !.progress[DriveStages[tasks[t].idx]] = "completed"]
    /\ tasks' = [tasks EXCEPT ![t].pc = "settled",
                              ![t].wake = clock + CompletedSleep]
    /\ UNCHANGED clock

\* process_project after the loop: the project is marked completed
ProcessFinish(t) ==
    /\ Due(t)
    /\ tasks[t].pc = "settled"
    /\ tasks[t].idx = Len(DriveStages)
    /\ projects_db' = [projects_db EXCEPT !.status = "completed",
                                          !.current_stage = "final"]
    /\ tasks' = [tasks EXCEPT ![t].pc = "done"]
    /\ UNCHANGED clock

\* a second passes: no task's timer has fired
Pass ==
    /\ \A t \in Drives : ~Due(t)
    /\ \/ \E t \in Drives : Running(t)
       \/ (\E t \in Drives : tasks[t].pc = "idle") /\ clock < MaxIdle
    /\ clock' = clock + 1
    /\ UNCHANGED <<projects_db, tasks>>

DriveStart == \E t \in Drives : StartProcessing(t) /\ UNCHANGED exceptDriveVars

DriveActivate == \E t \in Drives : ProcessActivate(t) /\ UNCHANGED exceptDriveVars

DriveComplete == \E t \in Drives : ProcessComplete(t) /\ UNCHANGED exceptDriveVars

DriveFinish == \E t \in Drives : ProcessFinish(t) /\ UNCHANGED exceptDriveVars

DrivePass == Pass /\ UNCHANGED exceptDriveVars

NextDrive ==
    \/ DriveStart
    \/ DriveActivate
    \/ DriveComplete
    \/ DriveFinish
    \/ DrivePass

SpecDrive == Init /\ [][NextDrive]_vars

ProgressIndex(s) == CHOOSE i \in 1..Len(ProgressStages) : ProgressStages[i] = s

\* two tasks drive the project at the same time
Overlapping == \A t \in Drives : Running(t)

\* C19: while two drives of one project run, no write moves current_stage
\* backward in the stage order, no stage marked completed becomes active
\* again, and the project is not marked completed with a drive still running.
SingleOwnerOfCheckpoint ==
    [][ Overlapping =>
          /\ ProgressIndex(projects_db'.current_stage)
                >= ProgressIndex(projects_db.current_stage)
          /\ \A s \in DOMAIN projects_db.progress :
                projects_db.progress[s] = "completed"
                    => projects_db'.progress[s] # "active"
          /\ projects_db'.status = "completed"
                => \A t \in Drives : ~Running(t)'
      ]_vars

-----------------------------------------------------------------------------
(* ScreenplayMergerAgent._calculate_quality_score; scores are in hundredths
   of a point, so that 0.5 point per dialogue line and len/100 are integers *)

\* the largest counts of the texts scored
MaxNames == 8

MaxDialogue == 60

MaxCuts == 6

MaxLength == 3000

\* line 184: score += 20
HeadingPoints == 2000

\* line 188: min(len(set(character_names)) * 5, 30)
NamePoints == 500

NameCap == 3000

\* line 192: min(len(dialogue_lines) * 0.5, 25)
DialoguePoints == 50

DialogueCap == 2500

\* line 196: min(len(transitions) * 2, 10)
TransitionPoints == 200

TransitionCap == 1000

\* line 199: min(len(screenplay) / 100, 15)
LengthCap == 1500

\* line 202: min(score, 100.0)
ScoreCap == 10000

Texts ==
    [scenes : 0..1, names : {0, 6, MaxNames},
     dialogue : {0, 50, MaxDialogue}, fades : 0..1, cuts : {0, 5, MaxCuts},
     length : {0, 1500, MaxLength}]

HeadingScore(txt) == IF txt.scenes > 0 THEN HeadingPoints ELSE 0

\* a character score with no upper limit
NameScoreUncapped(txt) == txt.names * NamePoints

NameScore(txt) == Min(txt.names * NamePoints, NameCap)

DialogueScore(txt) == Min(txt.dialogue * DialoguePoints, DialogueCap)

TransitionScore(txt) == Min((txt.fades + txt.cuts) * TransitionPoints, TransitionCap)

LengthScore(txt) == Min(txt.length, LengthCap)

CalculateQualityScore(txt) ==
    Min(HeadingScore(txt) + NameScore(txt) + DialogueScore(txt)
            + TransitionScore(txt) + LengthScore(txt),
        ScoreCap)

ScoreText ==
    /\ \E txt \in Texts :
          scored' = [ran |-> TRUE, text |-> txt,
                     score |-> CalculateQualityScore(txt)]
    /\ UNCHANGED <<merged, cons>>
    /\ UNCHANGED exceptMergeVars

NextScore == ScoreText

SpecScore == Init /\ [][NextScore]_vars

\* C26: the quality score of a text is between 0 and 100 points, and each
\* sub-score is within its cap (heading 20, names 30, dialogue 25,
\* transitions 10, length 15) whatever the counts and the length are.
ScoreWithinCaps ==
    scored.ran =>
        /\ scored.score >= 0 /\ scored.score <= 100 * 100
        /\ HeadingScore(scored.text) \in 0..(20 * 100)
        /\ NameScore(scored.text) \in 0..(30 * 100)
        /\ DialogueScore(scored.text) \in 0..(25 * 100)
        /\ TransitionScore(scored.text) \in 0..(10 * 100)
        /\ LengthScore(scored.text) \in 0..(15 * 100)
        /\ scored.score = HeadingScore(scored.text) + NameScore(scored.text)
                            + DialogueScore(scored.text)
                            + TransitionScore(scored.text)
                            + LengthScore(scored.text)

\* a text whose every count is past the point where its cap acts has been
\* scored: 100 points
ScoreWithinCapsWitness ==
    /\ scored.ran
    /\ scored.text.scenes > 0
    /\ scored.text.names * NamePoints > NameCap
    /\ scored.text.dialogue * DialoguePoints > DialogueCap
    /\ (scored.text.fades + scored.text.cuts) * TransitionPoints > TransitionCap
    /\ scored.text.length > LengthCap
    /\ scored.score = 100 * 100

-----------------------------------------------------------------------------
(* ScreenplayMergerAgent.process and its merge strategies *)

\* a text with a scene heading and nothing else
HeadingOnlyText ==
    [scenes |-> 1, names |-> 0, dialogue |-> 0, fades |-> 0, cuts |-> 0,
     length |-> 1500]

\* a text with four character names and no scene heading: the same score as
\* HeadingOnlyText
NamesOnlyText ==
    [scenes |-> 0, names |-> 4, dialogue |-> 0, fades |-> 0, cuts |-> 0,
     length |-> 1500]

\* a well-formed screenplay
FullText ==
    [scenes |-> 2, names |-> 2, dialogue |-> 4, fades |-> 1, cuts |-> 1,
     length |-> 1500]

CandidateTexts == {EmptyText, HeadingOnlyText, NamesOnlyText, FullText}

\* the versions a caller passes, at most one per provider: a text marked
\* successful, or a version marked unsuccessful
CandidateVersions ==
    {[content |-> t, success |-> TRUE] : t \in CandidateTexts}
        \cup {[content |-> FullText, success |-> FALSE]}

VersionLists ==
    UNION {[1..n -> CandidateVersions] : n \in 0..Len(ProviderOrder)}

MergeStrategies == {"consensus", "quality_score", "best_elements"}

\* what the model call of _consensus_merge gives: a text, or an exception
\* after the retries
NoAnswer == [failed |-> TRUE, content |-> EmptyText]

LlmAnswers ==
    {NoAnswer} \cup {[failed |-> FALSE, content |-> t] :
                        t \in {HeadingOnlyText, FullText}}

\* validate_screenplay_format of core/utils.py
MinTextLength == 100

ValidateScreenplayFormat(txt) ==
    (IF txt.length < MinTextLength THEN {"Screenplay too short"} ELSE {})
    \cup (IF txt.scenes + txt.fades = 0 THEN {"No scene headings found"} ELSE {})
    \cup (IF txt.names = 0 THEN {"No character names found"} ELSE {})
    \cup (IF txt.dialogue = 0 THEN {"No dialogue found"} ELSE {})

\* line 58: valid_versions, with the provider each version came from
ValidVersions(versions) ==
    LET tagged == [i \in 1..Len(versions) |->
                      [provider |-> ProviderOrder[i],
                       content |-> versions[i].content,
                       success |-> versions[i].success]]
        IsValid(v) == v.success /\ v.content # EmptyText
    IN SelectSeq(tagged, IsValid)

\* a selection in which a later version of equal score replaces the earlier
QualityScoreMergeLastWins(valid) ==
    LET Better(i) == \A j \in 1..Len(valid) :
                        \/ CalculateQualityScore(valid[j].content)
                             < CalculateQualityScore(valid[i].content)
                        \/ /\ CalculateQualityScore(valid[j].content)
                                = CalculateQualityScore(valid[i].content)
                           /\ j <= i
    IN valid[CHOOSE i \in 1..Len(valid) : Better(i)].content

\* _quality_score_merge: the loop keeps a version only when its score is
\* greater than the highest seen so far, which starts at -1
QualityScoreMerge(valid) ==
    LET Better(i) == \A j \in 1..Len(valid) :
                        \/ CalculateQualityScore(valid[j].content)
                             < CalculateQualityScore(valid[i].content)
                        \/ /\ CalculateQualityScore(valid[j].content)
                                = CalculateQualityScore(valid[i].content)
                           /\ j >= i
    IN valid[CHOOSE i \in 1..Len(valid) : Better(i)].content

\* _best_elements_merge: the first version with the most INT./EXT. lines
BestElementsMerge(valid) ==
    LET Most(i) == \A j \in 1..Len(valid) :
                      \/ valid[j].content.scenes < valid[i].content.scenes
                      \/ /\ valid[j].content.scenes = valid[i].content.scenes
                         /\ j >= i
    IN valid[CHOOSE i \in 1..Len(valid) : Most(i)].content

\* ScreenplayMergerAgent.process
MergerProcess(versions, strategy, llm) ==
    LET valid == ValidVersions(versions)
        fails == \/ Len(versions) < MinVersions
                 \/ valid = <<>>
                 \/ strategy = "consensus" /\ llm.failed
        content == IF strategy = "quality_score" THEN QualityScoreMerge(valid)
                   ELSE IF strategy = "best_elements" THEN BestElementsMerge(valid)
                   ELSE llm.content
    IN IF fails
       THEN [NoMerge EXCEPT !.ran = TRUE, !.versions = versions,
                            !.strategy = strategy, !.raised = TRUE]
       ELSE [ran |-> TRUE, versions |-> versions, strategy |-> strategy,
             raised |-> FALSE, content |-> content,
             version_providers |-> [i \in 1..Len(valid) |-> valid[i].provider],
             validation_issues |-> ValidateScreenplayFormat(content),
             quality_score |-> CalculateQualityScore(content),
             success |-> ValidateScreenplayFormat(content) = {}]

Merge ==
    /\ \E versions \in VersionLists :
       \E strategy \in MergeStrategies :
       \E llm \in LlmAnswers :
           /\ strategy # "consensus" => llm = NoAnswer
           /\ merged' = MergerProcess(versions, strategy, llm)
    /\ UNCHANGED <<scored, cons>>
    /\ UNCHANGED exceptMergeVars

NextMerge == Merge

SpecMerge == Init /\ [][NextMerge]_vars

\* the scores of the surviving candidates of the last merge
SurvivorScores ==
    {CalculateQualityScore(ValidVersions(merged.versions)[i].content) :
        i \in 1..Len(ValidVersions(merged.versions))}

\* C21: with strategy quality_score the merge returns the content of the
\* surviving candidate with the highest quality score, the first listed of
\* those that share it, and the result's quality_score is that maximum.
QualityMergePicksFirstBest ==
    (merged.ran /\ ~merged.raised /\ merged.strategy = "quality_score") =>
        LET valid == ValidVersions(merged.versions)
            IsTop(i) == \A sc \in SurvivorScores :
                           sc <= CalculateQualityScore(valid[i].content)
            first == CHOOSE i \in 1..Len(valid) :
                        IsTop(i) /\ \A j \in 1..(i - 1) : ~IsTop(j)
        IN /\ merged.content = valid[first].content
           /\ merged.quality_score = CalculateQualityScore(valid[first].content)
           /\ \A sc \in SurvivorScores : sc <= merged.quality_score

\* two survivors of different content share the highest score and the one
\* listed first has been returned
QualityMergePicksFirstBestWitness ==
    /\ merged.ran /\ ~merged.raised /\ merged.strategy = "quality_score"
    /\ LET valid == ValidVersions(merged.versions)
       IN \E i, j \in 1..Len(valid) :
             /\ i < j
             /\ valid[i].content # valid[j].content
             /\ CalculateQualityScore(valid[i].content) = merged.quality_score
             /\ CalculateQualityScore(valid[j].content) = merged.quality_score
             /\ merged.content = valid[i].content

-----------------------------------------------------------------------------
(* merge_screenplays of agents/screenplay/merger.py, as run_pipeline calls it.
   A text is the sequence of its blocks, the pieces between blank lines. *)

\* the calls of merge_screenplays followed
MaxCalls == 2

\* the blocks of the texts: a scene heading line, three dialogue blocks (a
\* character line and its speech), an action line
Blocks == <<"INT. ROOM - DAY", "ANNA/Hello.", "BEN/Hi.", "CARL/Bye.", "She leaves.">>

BlockRank(b) == CHOOSE i \in 1..Len(Blocks) : Blocks[i] = b

IsHeading(b) == b = "INT. ROOM - DAY"

IsDialogue(b) == b \in {"ANNA/Hello.", "BEN/Hi.", "CARL/Bye."}

\* what a provider call left in the formatted results: None, or a text
NoneVersion == [none |-> TRUE, blocks |-> <<>>]

VersionTexts ==
    {NoneVersion}
        \cup {[none |-> FALSE, blocks |-> b] :
                b \in {<<"INT. ROOM - DAY", "ANNA/Hello.">>,
                       <<"INT. ROOM - DAY", "BEN/Hi.">>,
                       <<"INT. ROOM - DAY", "CARL/Bye.", "She leaves.">>,
                       <<"ANNA/Hello.">>,
                       <<"INT. ROOM - DAY", "She leaves.">>}}

\* the hash seeds of the interpreter: the iteration order of a set of
\* strings is fixed by the seed of the process
HashSeeds == {1, 2}

\* extract_dialogue_blocks
ExtractDialogueBlocks(blocks) ==
    {blocks[i] : i \in {j \in DOMAIN blocks : IsDialogue(blocks[j])}}

\* extract_scene_headings of merger.py: non-empty when a heading line exists
HasSceneHeadings(blocks) == \E i \in DOMAIN blocks : IsHeading(blocks[i])

\* the order in which "for block in dialogue_blocks" visits a set
RECURSIVE SetOrder(_, _)
SetOrder(seed, S) ==
    IF S = {} THEN <<>>
    ELSE LET b == CHOOSE x \in S :
                    \A y \in S : IF seed = 1 THEN BlockRank(x) <= BlockRank(y)
                                 ELSE BlockRank(x) >= BlockRank(y)
         IN <<b>> \o SetOrder(seed, S \ {b})

NoLines == <<>>

\* merge_screenplays
MergeScreenplays(openai_version, claude_version, gemini_version, seed) ==
    LET all_versions == <<openai_version, claude_version, gemini_version>>
        call == [versions |-> all_versions, seed |-> seed]
    IN IF \E i \in 1..3 : all_versions[i].none
       THEN [call |-> call, raised |-> "TypeError", lines |-> NoLines,
             returned |-> FALSE]
       ELSE LET dialogue_blocks ==
                    UNION {ExtractDialogueBlocks(all_versions[i].blocks) : i \in 1..3}
                used_dialogue == ExtractDialogueBlocks(openai_version.blocks)
                merged_lines ==
                    openai_version.blocks
                        \o SetOrder(seed, dialogue_blocks \ used_dialogue)
            IN IF ~HasSceneHeadings(merged_lines)
               THEN [call |-> call,
                     raised |-> "Merged screenplay missing scene headings.",
                     lines |-> merged_lines, returned |-> FALSE]
               ELSE IF ExtractDialogueBlocks(merged_lines) = {}
               THEN [call |-> call,
                     raised |-> "Merged screenplay missing dialogue blocks.",
                     lines |-> merged_lines, returned |-> FALSE]
               ELSE [call |-> call, raised |-> "None",
                     lines |-> merged_lines, returned |-> TRUE]

CallMergeScreenplays ==
    /\ Len(cons) < MaxCalls
    /\ \E o, c, g \in VersionTexts : \E seed \in HashSeeds :
          cons' = Append(cons, MergeScreenplays(o, c, g, seed))
    /\ UNCHANGED <<scored, merged>>
    /\ UNCHANGED exceptMergeVars

NextConsensus == CallMergeScreenplays

SpecConsensus == Init /\ [][NextConsensus]_vars

\* C23: two calls of merge_screenplays with the same three texts in the same
\* order return the same merged text, block for block.
ConsensusIsDeterministic ==
    \A i, j \in DOMAIN cons :
        cons[i].call.versions = cons[j].call.versions
            => /\ cons[i].lines = cons[j].lines
               /\ cons[i].raised = cons[j].raised

\* C22: a merged output that fails the structural validation is returned all
\* the same, flagged success = false with the issues listed: by
\* ScreenplayMergerAgent.process and by merge_screenplays alike, neither
\* raising an error nor reporting success.
MalformedMergeIsFlagged ==
    /\ (merged.ran /\ ~merged.raised /\ merged.validation_issues # {})
          => merged.success = FALSE
    /\ (merged.ran /\ ~merged.raised /\ merged.validation_issues = {})
          => merged.success = TRUE
    /\ \A i \in DOMAIN cons :
          ( /\ \A n \in 1..3 : ~cons[i].call.versions[n].none
            /\ \/ ~HasSceneHeadings(cons[i].lines)
               \/ ExtractDialogueBlocks(cons[i].lines) = {} )
          => /\ cons[i].raised = "None"
             /\ cons[i].returned

-----------------------------------------------------------------------------
(* The notifications of the approval service: _send_notification publishes
   on the channel "approval_notifications" *)

Notification(event, id) == [event |-> event, approval_id |-> id]

\* create_approval_request, lines 136-144
PublishCreate ==
    /\ Cardinality(DOMAIN db) < MaxReq
    /\ \E q \in Requests :
        CreateApprovalRequest(Cardinality(DOMAIN db) + 1, "p1", q.stage,
                              "screenplay", 2, q.assigned_to, DueDate(q.due_in))
    /\ sent' = <<Notification("approval_created", Cardinality(DOMAIN db) + 1)>>
    /\ UNCHANGED <<crt, query>>
    /\ UNCHANGED exceptSvcVars

\* submit_approval_response, lines 287-295: nothing is published when the
\* call raises
PublishRespond ==
    /\ \E id \in Ids, r \in Responses :
          /\ SubmitApprovalResponse(id, r)
          /\ sent' = IF ResponseAccepted(id)
                     THEN <<Notification("approval_response", id)>>
                     ELSE <<>>
    /\ UNCHANGED <<crt, query>>
    /\ UNCHANGED exceptSvcVars

\* reassign_approval, lines 396-403
PublishReassign ==
    /\ \E id \in Ids :
          /\ ReassignApproval(id, "u2")
          /\ sent' = IF id \in DOMAIN db /\ db[id].status = "pending"
                     THEN <<Notification("approval_reassigned", id)>>
                     ELSE <<>>
    /\ UNCHANGED <<crt, query>>
    /\ UNCHANGED exceptSvcVars

\* cancel_approval, lines 439-444
PublishCancel ==
    /\ \E id \in Ids :
          /\ CancelApproval(id, "u1")
          /\ sent' = <<Notification("approval_cancelled", id)>>
    /\ UNCHANGED <<crt, query>>
    /\ UNCHANGED exceptSvcVars

\* cleanup_expired_approvals, lines 596-615: no call of _send_notification
PublishCleanup ==
    /\ CleanupExpiredApprovals
    /\ sent' = <<>>
    /\ UNCHANGED <<crt, query>>
    /\ UNCHANGED exceptSvcVars

NextNotify ==
    \/ PublishCreate
    \/ PublishRespond
    \/ PublishReassign
    \/ PublishCancel
    \/ PublishCleanup

SpecNotify == Init /\ [][NextNotify]_vars

\* C24: the creation of a request and every transition of a request out of
\* pending (by response, cancellation or expiry) come with exactly one
\* notification that names the request.
EveryResolutionNotified ==
    [][ \A id \in Ids :
          ( \/ id \notin DOMAIN db /\ id \in DOMAIN db'
            \/ IsPending(id) /\ db'[id].status # "pending" )
          => Cardinality({i \in DOMAIN sent' : sent'[i].approval_id = id}) = 1
      ]_vars

-----------------------------------------------------------------------------
(* get_pending_approvals with a user filter and a limit *)

\* the largest limit a listing is called with
MaxLimit == 2

ListQuery ==
    /\ \E user_id \in {"None"} \cup Users, limit \in 1..MaxLimit :
          /\ ListPending(user_id, "None", "None", limit)
          /\ query' = [user_id |-> user_id, limit |-> limit]
    /\ UNCHANGED <<sent, crt>>
    /\ UNCHANGED exceptSvcVars

\* the requests filed before a listing: an overdue one with no assignee,
\* which ranks first, and one without a due date for each user
ListRequests ==
    { [stage |-> "screenplay_generation", assigned_to |-> "None", due_in |-> <<0 - 1>>],
      [stage |-> "screenplay_generation", assigned_to |-> "u1", due_in |-> <<>>],
      [stage |-> "character_design", assigned_to |-> "u2", due_in |-> <<>>] }

CreateListed ==
    /\ Cardinality(DOMAIN db) < MaxReq
    /\ \E q \in ListRequests :
        CreateApprovalRequest(Cardinality(DOMAIN db) + 1, "p1", q.stage,
                              "screenplay", 2, q.assigned_to, DueDate(q.due_in))
    /\ UNCHANGED exceptApprovalVars

NextList ==
    \/ CreateListed
    \/ Respond
    \/ Reassign
    \/ ListQuery

SpecList == Init /\ [][NextList]_vars

\* C28: a listing with a filter and a limit returns the min(limit, n)
\* highest-scored pending requests of the n whose queue entry matches the
\* filter; entries that do not match and rank above take none of its places.
FilteredListIsTopMatching ==
    lastOp.op = "list" =>
        LET matching == GetPendingApprovals(query.user_id, "None", "None",
                                            Cardinality(queue))
        IN listed = SubSeq(matching, 1, Min(query.limit, Len(matching)))

\* C29: a listing filtered by a user, with a limit that takes in the whole
\* queue, returns a pending request exactly when its record names that user
\* as the assignee: after a reassignment it is listed for the new assignee
\* and not for the previous one.
ListingFollowsReassignment ==
    ( /\ lastOp.op = "list"
      /\ Truthy(query.user_id)
      /\ query.limit >= Cardinality(queue) )
    => \A id \in DOMAIN db :
          IsPending(id) => (IsListed(id) <=> db[id].assigned_to = query.user_id)

-----------------------------------------------------------------------------
(* create_approval_request step by step: the insert is committed before the
   three Redis commands run *)

\* lines 95-113: the row is inserted and committed
CrtInsert(q) ==
    /\ crt.pc = "idle"
    /\ Cardinality(DOMAIN db) < MaxReq
    /\ LET id == Cardinality(DOMAIN db) + 1
       IN /\ db' = db @@ (id :> NewRow("p1", q.stage, "screenplay", 2,
                                       q.assigned_to, DueDate(q.due_in), now))
          /\ crt' = [pc |-> "zadd", id |-> id, stage |-> q.stage,
                     assigned_to |-> q.assigned_to,
                     due_date |-> DueDate(q.due_in)]
    /\ listed' = <<>>
    /\ UNCHANGED <<queue, pendingSet, userAssign, now, lastOp, sent, query>>

\* lines 115-134: zadd of the queue item with its score
CrtZadd ==
    /\ crt.pc = "zadd"
    /\ queue' = queue \cup {NewQueueEntry(crt.id, "p1", crt.stage, "screenplay", 2,
                                          crt.assigned_to, crt.due_date, now)}
    /\ crt' = [crt EXCEPT !.pc = "sadd"]
    /\ UNCHANGED <<db, pendingSet, userAssign, now, lastOp, listed, sent, query>>

\* lines 136-140: sadd to the pending set
CrtSadd ==
    /\ crt.pc = "sadd"
    /\ pendingSet' = pendingSet \cup {crt.id}
    /\ crt' = [crt EXCEPT !.pc = "assign"]
    /\ UNCHANGED <<db, queue, userAssign, now, lastOp, listed, sent, query>>

\* lines 142-160: sadd to the assignee's set, the notification, return
CrtAssign ==
    /\ crt.pc = "assign"
    /\ userAssign' = IF Truthy(crt.assigned_to)
                     THEN [userAssign EXCEPT ![crt.assigned_to] = @ \cup {crt.id}]
                     ELSE userAssign
    /\ sent' = <<Notification("approval_created", crt.id)>>
    /\ lastOp' = [op |-> "create", ok |-> TRUE]
    /\ crt' = IdleCreate
    /\ UNCHANGED <<db, queue, pendingSet, now, listed, query>>

\* lines 162-164: the Redis command about to run raises, the call raises
\* ApprovalServiceError
CrtFail ==
    /\ crt.pc \in {"zadd", "sadd", "assign"}
    /\ crt.pc = "assign" => Truthy(crt.assigned_to)
    /\ lastOp' = [op |-> "create", ok |-> FALSE]
    /\ crt' = IdleCreate
    /\ sent' = <<>>
    /\ UNCHANGED <<db, queue, pendingSet, userAssign, now, listed, query>>

StepCrtInsert ==
    /\ \E q \in Requests : CrtInsert(q)
    /\ UNCHANGED exceptSvcVars

StepCrtZadd == CrtZadd /\ UNCHANGED exceptSvcVars

StepCrtSadd == CrtSadd /\ UNCHANGED exceptSvcVars

StepCrtAssign == CrtAssign /\ UNCHANGED exceptSvcVars

StepCrtFail == CrtFail /\ UNCHANGED exceptSvcVars

NextCreate ==
    \/ StepCrtInsert
    \/ StepCrtZadd
    \/ StepCrtSadd
    \/ StepCrtAssign
    \/ StepCrtFail
    \/ Respond
    \/ Cancel

SpecCreate == Init /\ [][NextCreate]_vars

\* C30: a create_approval_request that raises leaves no pending record of
\* its own in the store; one that returns leaves the request in the store
\* and, while it is pending, in the queue, the pending set and its
\* assignee's index.
CreateIsAllOrNothing ==
    [][ (crt.pc # "idle" /\ crt'.pc = "idle") =>
          IF lastOp'.ok
          THEN /\ crt.id \in DOMAIN db'
               /\ db'[crt.id].status = "pending"
                    => /\ \E e \in queue' : e.approval_id = crt.id
                       /\ crt.id \in pendingSet'
                       /\ Truthy(crt.assigned_to)
                            => crt.id \in userAssign'[crt.assigned_to]
          ELSE ~(crt.id \in DOMAIN db' /\ db'[crt.id].status = "pending")
      ]_vars

====
